---- MODULE Spec2Model ----
(***************************************************************************)
(* chat-server: a WebSocket relay that polls a remote message log over     *)
(* HTTP.  Two revisions of the relay live in the repository:               *)
(*   - the per-client PollingService driven by ChatServer (revision 2.0),  *)
(*     with SecurityMiddleware and ApiService;  specification Spec;        *)
(*   - the single global relay of src/server.ts (one timer, one cursor,    *)
(*     broadcast);  specification SpecRelay.                               *)
(* Strings are sequences of one-character strings.  A JavaScript Map is a  *)
(* function whose DOMAIN is the set of keys present.                       *)
(***************************************************************************)
EXTENDS Integers, Sequences, FiniteSets, Bags, TLC

VARIABLES
    \* ---- ChatServer / PollingService (revision 2.0)
    status,          \* socket id -> "new" | "connected" | "gone", for the
                     \* sockets of the run
    clients,         \* PollingService.clients         : Map<string, ClientInfo>
    pollingConfigs,  \* PollingService.pollingConfigs  : Map<string, PollingConfig>
    intervals,       \* PollingService.intervals       : Map<string, Timeout>
    timers,          \* bag of the live setInterval timers, each [client, key]
    tasks,           \* bag of the executePolling calls suspended at an await
    emitted,         \* the socket.emit calls of the latest step, in order
    stoppedOnError,  \* history: connections stopped by the failure threshold
                     \* that have sent no startPolling since
    \* ---- global relay (src/server.ts)
    connected,       \* sockets counted by io.engine.clientsCount
    globalInterval,  \* TRUE iff the variable globalInterval is not null
    liveIntervals,   \* number of setInterval timers that were never cleared
    lastIndex,       \* the global cursor
    currentKey,      \* the polled key ("" is the empty sequence)
    remote,          \* key -> the remote log, a sequence of entries
    fetches,         \* bag of the fetchAndEmit calls suspended at axios.get
    delivered,       \* socket id -> the 'new_message' events it received
    joinIndex,       \* history: the value of lastIndex when the socket connected
    polledKeys,      \* history: keys fetched since the cursor was last 0-reset
    subscribed,      \* history: socket id -> the key of its latest startPolling
    joinedAlone,     \* history: the sockets that connected when no other
                     \* socket was connected
    shrunk,          \* history: the latest response that arrived was shorter
                     \* than the cursor
    \* ---- SecurityMiddleware.rateLimit
    maxRequests,     \* config.RATE_LIMIT_MAX_REQUESTS of the deployment
    requestCounts,   \* SecurityMiddleware.requestCounts : Map<ip, {count, resetTime}>
    now,             \* Date.now(), in ms
    advances,        \* number of clock advances so far
    reply,           \* what the latest rateLimit call did: next() or 429
    firstAt,         \* history: ip -> time of the first request of its window
    everRejected,    \* history: the origins rateLimit has rejected at some time
    solo,            \* history: ip -> the requestCounts of a middleware that
                     \* received the requests of ip only, at the same times
    requestsMade,    \* history: ip -> requests made in its window so far
    \* ---- ApiService on its own
    apiBody,         \* the response body the remote source serves
    apiCall,         \* the latest fetchMessages call: its arguments, and as
                     \* history the sleeps of its retry loop and the entries
                     \* processApiResponse returned
    apiResult,       \* the PollingResult of the latest fetchMessages call
    apiReturned      \* history: the entries processApiResponse has returned

pvars == <<status, clients, pollingConfigs, intervals, timers, tasks, emitted,
           stoppedOnError>>
rvars == <<connected, globalInterval, liveIntervals, lastIndex, currentKey,
           remote, fetches, delivered, joinIndex, polledKeys, subscribed,
           joinedAlone, shrunk>>
lvars == <<maxRequests, requestCounts, now, advances, reply, firstAt,
           everRejected, solo, requestsMade>>
avars == <<apiBody, apiCall, apiResult, apiReturned>>
vars == <<pvars, rvars, lvars, avars>>

\* what the actions of one part leave unchanged
notP == <<rvars, lvars, avars>>
notR == <<pvars, lvars, avars>>
notL == <<pvars, rvars, avars>>
notA == <<pvars, rvars, lvars>>

----------------------------------------------------------------------------
(* Bounds of the model                                                     *)

MaxTasks == 2        \* executePolling calls in flight per connection
MaxTimers == 2       \* setInterval timers created and not cleared, per connection
MaxLog == 2          \* entries in the remote log of one key
MaxFetches == 2      \* fetchAndEmit calls in flight in the global relay
MaxIntervals == 1    \* setInterval timers of the global relay not cleared
SmallMaxRequests == 2 \* a small setting of RATE_LIMIT_MAX_REQUESTS
MaxExtra == 2        \* requests of one origin beyond the maximum, per window
MaxBeyondCap == 1     \* entries of a response beyond the batch maximum
MaxAdvances == 3     \* clock advances in one run
MaxInFlight == 2     \* executePolling calls in flight, two connections together

(* Program constants                                                       *)

MAX_KEY_LENGTH == 100          \* isValidKey: key.length <= 100
MAX_STRING_LENGTH == 10000     \* sanitizeString: slice(0, 10000)
MAX_MESSAGE_LENGTH == 10000    \* isValidMessage: message.length <= 10000
ERROR_THRESHOLD == 5           \* handlePollingError: errorCount >= 5
API_RETRY_ATTEMPTS == 3        \* config.API_RETRY_ATTEMPTS
MAX_MESSAGES_PER_BATCH == 100  \* config.MAX_MESSAGES_PER_BATCH
RATE_LIMIT_WINDOW == 900000    \* config.RATE_LIMIT_WINDOW, in ms
RATE_LIMIT_MAX_REQUESTS == 100 \* config.RATE_LIMIT_MAX_REQUESTS (default)

----------------------------------------------------------------------------
(* Strings                                                                 *)

Letters == {"a","b","c","d","e","f","g","h","i","j","k","l","m","n","o","p",
            "q","r","s","t","u","v","w","x","y","z",
            "A","B","C","D","E","F","G","H","I","J","K","L","M","N","O","P",
            "Q","R","S","T","U","V","W","X","Y","Z"}
Digits == {"0","1","2","3","4","5","6","7","8","9"}
\* the character class [a-zA-Z0-9_-]
KeyChars == Letters \cup Digits \cup {"_", "-"}
\* what String.prototype.trim removes (the model's inputs use the space only)
WhiteSpace == {" "}

Repeat(ch, n) == [i \in 1..n |-> ch]

\* str.replace(/[<>]/g, '')
NotAngle(ch) == ch \notin {"<", ">"}
StripAngle(s) == SelectSeq(s, NotAngle)

RECURSIVE TrimLeft(_)
TrimLeft(s) ==
    IF s # <<>> /\ Head(s) \in WhiteSpace THEN TrimLeft(Tail(s)) ELSE s

RECURSIVE TrimRight(_)
TrimRight(s) ==
    IF s # <<>> /\ s[Len(s)] \in WhiteSpace
    THEN TrimRight(SubSeq(s, 1, Len(s) - 1)) ELSE s

\* str.trim()
Trim(s) == TrimRight(TrimLeft(s))

\* str.slice(0, n)
Slice(s, n) == IF Len(s) <= n THEN s ELSE SubSeq(s, 1, n)

\* SecurityMiddleware.sanitizeString
sanitizeString(s) == Slice(Trim(StripAngle(s)), MAX_STRING_LENGTH)

(* A JavaScript value sent as the key: a string, or something else         *)
(* (a number, undefined).                                                  *)
Str(s) == [type |-> "string", chars |-> s]
NotAString == [type |-> "other", chars |-> <<>>]

\* SecurityMiddleware.sanitizeInput applied to one property value
sanitizeValue(v) == IF v.type = "string" THEN Str(sanitizeString(v.chars)) ELSE v

\* PollingService.isValidKey / ApiService.isValidKey
isValidKey(v) ==
    /\ v.type = "string"
    /\ Len(v.chars) > 0
    /\ Len(v.chars) <= MAX_KEY_LENGTH
    /\ \A i \in 1..Len(v.chars) : v.chars[i] \in KeyChars

\* SecurityMiddleware.validateStartPollingData: TRUE iff no error is sent
validateStartPollingData(v) ==
    /\ v.type = "string" /\ v.chars # <<>>                  \* !data.key || typeof
    /\ ~(Len(v.chars) = 0 \/ Len(v.chars) > MAX_KEY_LENGTH)
    /\ \A i \in 1..Len(v.chars) : v.chars[i] \in KeyChars

----------------------------------------------------------------------------
(* ApiService: the fetch client                                            *)
(* One call of fetchMessages is decided by what the remote source does     *)
(* during it: env.fails is the number of leading HTTP attempts that fail,  *)
(* env.body the response body of the first attempt that succeeds.  A body  *)
(* is [shape, msgs]: shape "empty" is an object without properties,        *)
(* "notArray" one whose first property is no array, "array" one whose      *)
(* first property is the array msgs.  An array element is modelled by its  *)
(* length; -1 stands for an element that is no string.                     *)

Body(shape, msgs) == [shape |-> shape, msgs |-> msgs]

\* isValidMessage without the upper limit on the length
isValidMessageAnyLength(m) == m >= 0 /\ m > 0

\* ApiService.isValidMessage
isValidMessage(m) == m >= 0 /\ m > 0 /\ m <= MAX_MESSAGE_LENGTH

\* a backoff whose exponent counts the attempts from 0
Pow2FromZero(n) == 2 ^ (n - 1)

Pow2(n) == 2 ^ n

\* the error thrown by attempt number k; the error of an invalid key; none
ErrorOf(k) == [kind |-> "attempt", attempt |-> k]
InvalidKeyError == [kind |-> "invalidKey"]
NoError == [kind |-> "none"]

\* ApiService.makeRequestWithRetry, from attempt number `attempt` on
RECURSIVE RetryLoop(_, _, _, _)
RetryLoop(attempt, env, requests, delays) ==
    IF attempt > API_RETRY_ATTEMPTS
    THEN [ok |-> FALSE, body |-> Body("empty", <<>>),
          requests |-> requests, delays |-> delays,
          error |-> ErrorOf(attempt - 1)]                      \* throw lastError
    ELSE IF attempt > env.fails
    THEN [ok |-> TRUE, body |-> env.body,
          requests |-> requests + 1, delays |-> delays,
          error |-> NoError]                                   \* return response
    ELSE IF attempt < API_RETRY_ATTEMPTS
    THEN RetryLoop(attempt + 1, env, requests + 1,
                   Append(delays, Pow2(attempt) * 1000))       \* sleep(delay)
    ELSE RetryLoop(attempt + 1, env, requests + 1, delays)

\* makeRequestWithRetry counting its attempts from 0
makeRequestWithRetryFromZero(env) == RetryLoop(0, env, 0, <<>>)

makeRequestWithRetry(env) == RetryLoop(1, env, 0, <<>>)

\* rawMessages.filter(msg => this.isValidMessage(msg))
FilterValid(msgs) == SelectSeq(msgs, isValidMessage)

\* ApiService.processApiResponse
processApiResponse(body) ==
    IF body.shape = "empty" THEN <<>>
    ELSE IF body.shape # "array" THEN <<>>
    ELSE Slice(FilterValid(body.msgs), MAX_MESSAGES_PER_BATCH)

\* fetchMessages failing on a body whose first field is no array
fetchMessagesStrict(key, env) ==
    IF ~isValidKey(Str(key))
    THEN [success |-> FALSE, messagesProcessed |-> 0, requests |-> 0,
          error |-> InvalidKeyError]
    ELSE LET r == makeRequestWithRetry(env) IN
         IF r.ok /\ r.body.shape = "array"
         THEN [success |-> TRUE,
               messagesProcessed |-> Len(processApiResponse(r.body)),
               requests |-> r.requests, error |-> NoError]
         ELSE [success |-> FALSE, messagesProcessed |-> 0,
               requests |-> r.requests, error |-> r.error]

\* ApiService.fetchMessages: the PollingResult, and the HTTP requests issued
fetchMessages(key, env) ==
    IF ~isValidKey(Str(key))
    THEN [success |-> FALSE, messagesProcessed |-> 0, requests |-> 0,
          error |-> InvalidKeyError]
    ELSE LET r == makeRequestWithRetry(env) IN
         IF r.ok
         THEN [success |-> TRUE,
               messagesProcessed |-> Len(processApiResponse(r.body)),
               requests |-> r.requests, error |-> NoError]
         ELSE [success |-> FALSE, messagesProcessed |-> 0,
               requests |-> r.requests, error |-> r.error]

----------------------------------------------------------------------------
(* PollingService: the three maps and the timers, as one store             *)

MapSet(m, k, v) == [x \in DOMAIN m \cup {k} |-> IF x = k THEN v ELSE m[x]]
MapDelete(m, k) == [x \in DOMAIN m \ {k} |-> m[x]]
EmptyMap == [x \in {} |-> 0]

Store == [clients |-> clients, pollingConfigs |-> pollingConfigs,
          intervals |-> intervals, timers |-> timers]

Timer(c, key) == [client |-> c, key |-> key]
One(x) == SetToBag({x})

\* setupClient that also schedules the timer, before the immediate fetch
setupClientWithTimer(S, c, key) ==
    [S EXCEPT
       !.clients = MapSet(@, c, [pollingKey |-> key, messageCount |-> 0,
                                 lastActivity |-> "setup"]),
       !.pollingConfigs = MapSet(@, c, [key |-> key, lastIndex |-> 0,
                                        errorCount |-> 0]),
       !.timers = @ (+) SetToBag({[client |-> c, key |-> key]}),
       !.intervals = MapSet(@, c, key)]

\* PollingService.setupClient
setupClient(S, c, key) ==
    [S EXCEPT
       !.clients = MapSet(@, c, [pollingKey |-> key, messageCount |-> 0,
                                 lastActivity |-> "setup"]),
       !.pollingConfigs = MapSet(@, c, [key |-> key, lastIndex |-> 0,
                                        errorCount |-> 0])]

\* cleanupClient that clears the three maps
cleanupClientClearsAll(S, c) ==
    [S EXCEPT !.clients = EmptyMap,
              !.pollingConfigs = EmptyMap,
              !.intervals = EmptyMap]

\* PollingService.cleanupClient
cleanupClient(S, c) ==
    [S EXCEPT !.clients = MapDelete(@, c),
              !.pollingConfigs = MapDelete(@, c),
              !.intervals = MapDelete(@, c)]

\* PollingService.isClientPolling
isClientPolling(S, c) == c \in DOMAIN S.intervals

\* stopPolling that clears the timer and leaves its handle in the map
stopPollingKeepsHandle(S, c) ==
    IF c \in DOMAIN S.intervals
    THEN [S EXCEPT !.timers = @ (-) One(Timer(c, S.intervals[c])),
                   !.clients = MapDelete(@, c),
                   !.pollingConfigs = MapDelete(@, c)]
    ELSE cleanupClient(S, c)

\* PollingService.stopPolling: clearInterval on the handle the map holds
stopPolling(S, c) ==
    cleanupClient(
        IF c \in DOMAIN S.intervals
        THEN [S EXCEPT !.timers = @ (-) One(Timer(c, S.intervals[c])),
                       !.intervals = MapDelete(@, c)]
        ELSE S, c)

\* PollingService.setupPeriodicPolling: a new timer, and the map entry set to it
setupPeriodicPolling(S, c, key) ==
    [S EXCEPT !.timers = @ (+) One(Timer(c, key)),
              !.intervals = MapSet(@, c, key)]

\* PollingService.updateClientActivity
updateClientActivity(S, c) ==
    IF c \in DOMAIN S.clients
    THEN [S EXCEPT !.clients[c].lastActivity = "polled"]
    ELSE S

\* PollingService.resetErrorCount
resetErrorCount(S, c) ==
    IF c \in DOMAIN S.pollingConfigs
    THEN [S EXCEPT !.pollingConfigs[c].errorCount = 0]
    ELSE S

\* PollingService.handlePollingError
handlePollingError(S, c) ==
    IF c \in DOMAIN S.pollingConfigs
    THEN LET S1 == [S EXCEPT !.pollingConfigs[c].errorCount = @ + 1] IN
         IF S1.pollingConfigs[c].errorCount >= ERROR_THRESHOLD
         THEN stopPolling(S1, c)
         ELSE S1
    ELSE S

\* PollingService.getSocketById
getSocketById(c) == "null"

\* the store written back to the variables
Commit(S) ==
    /\ clients' = S.clients
    /\ pollingConfigs' = S.pollingConfigs
    /\ intervals' = S.intervals
    /\ timers' = S.timers

\* PollingService.incrementMessageCount
incrementMessageCount(S, c, count) ==
    IF c \in DOMAIN S.clients
    THEN [S EXCEPT !.clients[c].messageCount = @ + count]
    ELSE S

----------------------------------------------------------------------------
(* ChatServer + PollingService: the handlers                               *)

\* What clients send as the data of a startPolling event
KeyA == <<"a">>
KeyB == <<"b">>
KeySpaced == <<"a", " ", "b">>          \* like "abc def"
KeyBracketed == <<"<", "b", ">">>       \* like "<abc>"
KeyPadded == <<" ", "a">>               \* like " abc"
KeyLong == Repeat("a", MAX_KEY_LENGTH + 1)

RawKeyValues == {Str(KeyA), Str(KeyB), Str(KeySpaced), Str(KeyBracketed),
                 Str(KeyPadded), Str(KeyLong), Str(<<>>), NotAString}

\* data: an object {key, event?} or something that is no object
Requests ==
    [isObject : {TRUE}, key : RawKeyValues, event : BOOLEAN]
      \cup {[isObject |-> FALSE, key |-> NotAString, event |-> FALSE]}

\* SecurityMiddleware.sanitizeInput on the request data
sanitizeInput(data) ==
    IF data.isObject THEN [data EXCEPT !.key = sanitizeValue(@)] ELSE data

\* SecurityMiddleware.validateWebSocketInput: TRUE iff no error is sent
validateWebSocketInput(data) ==
    IF ~data.isObject THEN FALSE
    ELSE IF data.event THEN validateStartPollingData(data.key)
    ELSE TRUE

\* What the remote source does during one fetchMessages call
PollEnvs ==
    {[fails |-> f, body |-> b] :
        f \in {0, 1, API_RETRY_ATTEMPTS},
        b \in {Body("array", <<>>), Body("array", <<7, 7>>),
               Body("notArray", <<>>), Body("empty", <<>>)}}

Ev(c, type, key) == [to |-> c, type |-> type, key |-> key]

Task(c, key, kind, pc, raw) ==
    [client |-> c, key |-> key, kind |-> kind, pc |-> pc, raw |-> raw,
     first |-> "none",    \* history: the shape of the body of the first fetch
     stale |-> FALSE]     \* history: the poller that made the call was torn
                          \* down (disconnect, threshold stop) since

OfClient(B, c) == [x \in {y \in BagToSet(B) : y.client = c} |-> B[x]]
NumTasks(c) == BagCardinality(OfClient(tasks, c))
NumTimers(c) == BagCardinality(OfClient(timers, c))
NumStarts(c) ==
    BagCardinality([x \in {y \in BagToSet(tasks) :
                              y.client = c /\ y.kind = "start"} |-> tasks[x]])

\* the suspended calls of c, marked as calls of a poller that was torn down
MarkStale(B, c) ==
    LET img(x) == IF x.client = c THEN [x EXCEPT !.stale = TRUE] ELSE x
        old(y) == [y EXCEPT !.stale = FALSE]
    IN  [y \in {img(x) : x \in BagToSet(B)} |->
            IF y.client = c
            THEN CopiesIn(y, B) + CopiesIn(old(y), B)
            ELSE B[y]]

\* handlePollingError on S is about to stop the poller of c
ThresholdHit(S, c) ==
    /\ c \in DOMAIN S.pollingConfigs
    /\ S.pollingConfigs[c].errorCount + 1 >= ERROR_THRESHOLD

\* the socket ids of the run
Sockets == DOMAIN status

\* ChatServer.handleConnection
Connect(c) ==
    /\ status[c] = "new"
    /\ status' = [status EXCEPT ![c] = "connected"]
    /\ emitted' = <<Ev(c, "connected", <<>>)>>
    /\ UNCHANGED <<clients, pollingConfigs, intervals, timers, tasks,
                   stoppedOnError>>
    /\ UNCHANGED notP

\* ChatServer.handleStartPolling with PollingService.startPolling, up to the
\* await of the immediate executePolling
StartPolling(c, data) ==
    /\ status[c] = "connected"
    /\ stoppedOnError' = stoppedOnError \ {c}
    /\ LET sd == sanitizeInput(data) IN
       IF ~validateWebSocketInput(sd)
       THEN \* sendError, return
            /\ emitted' = <<Ev(c, "error", <<>>)>>
            /\ UNCHANGED <<clients, pollingConfigs, intervals, timers, tasks>>
       ELSE IF ~isValidKey(sd.key)
       THEN \* startPolling throws, its catch cleans up and rethrows
            /\ Commit(cleanupClient(Store, c))
            /\ emitted' = <<Ev(c, "error", <<>>)>>
            /\ UNCHANGED tasks
       ELSE IF isClientPolling(Store, c)
       THEN \* startPolling returns early; polling_started is emitted
            /\ emitted' = <<Ev(c, "polling_started", sd.key.chars)>>
            /\ UNCHANGED <<clients, pollingConfigs, intervals, timers, tasks>>
       ELSE /\ NumTasks(c) < MaxTasks
            /\ NumTimers(c) + NumStarts(c) < MaxTimers
            /\ Commit(setupClient(Store, c, sd.key.chars))
            /\ tasks' = tasks (+) One(Task(c, sd.key.chars, "start", "fetch",
                                           data.key))
            /\ emitted' = <<>>
    /\ UNCHANGED status
    /\ UNCHANGED notP

\* The callback of setInterval in setupPeriodicPolling fires
Tick(c, key) ==
    /\ BagIn(Timer(c, key), timers)
    /\ NumTasks(c) < MaxTasks
    /\ tasks' = tasks (+) One(Task(c, key, "tick", "fetch", Str(key)))
    /\ emitted' = <<>>
    /\ UNCHANGED <<status, clients, pollingConfigs, intervals, timers,
                   stoppedOnError>>
    /\ UNCHANGED notP

\* executePolling that rethrows a failed fetch: the catch of startPolling
\* cleans up and handleStartPolling reports the error
CompleteRethrows(t, S, hit) ==
    /\ tasks' = IF hit THEN MarkStale(tasks (-) One(t), t.client)
                ELSE tasks (-) One(t)
    /\ stoppedOnError' = IF hit THEN stoppedOnError \cup {t.client}
                         ELSE stoppedOnError
    /\ IF t.kind = "start"
       THEN IF /\ t.client \in DOMAIN S.pollingConfigs
               /\ S.pollingConfigs[t.client].errorCount > 0
            THEN /\ Commit(cleanupClient(S, t.client))
                 /\ emitted' = <<Ev(t.client, "error", <<>>)>>
            ELSE /\ Commit(setupPeriodicPolling(S, t.client, t.key))
                 /\ emitted' = <<Ev(t.client, "polling_started", t.key)>>
       ELSE /\ Commit(S)
            /\ emitted' = <<>>
    /\ UNCHANGED status

\* executePolling has returned to its caller: the timer callback ends, or
\* startPolling goes on to setupPeriodicPolling and handleStartPolling emits
Complete(t, S, hit) ==
    /\ tasks' = IF hit THEN MarkStale(tasks (-) One(t), t.client)
                ELSE tasks (-) One(t)
    /\ stoppedOnError' = IF hit THEN stoppedOnError \cup {t.client}
                         ELSE stoppedOnError
    /\ IF t.kind = "start"
       THEN /\ Commit(setupPeriodicPolling(S, t.client, t.key))
            /\ emitted' = <<Ev(t.client, "polling_started", t.key)>>
       ELSE /\ Commit(S)
            /\ emitted' = <<>>
    /\ UNCHANGED status

\* the call t, suspended in processMessages after its first fetch met env
Processing(t, env) == [t EXCEPT !.pc = "process", !.first = env.body.shape]

\* executePolling resumes after `await this.apiService.fetchMessages(key)`
FetchDone(t, env) ==
    /\ BagIn(t, tasks)
    /\ t.pc = "fetch"
    /\ LET r == fetchMessages(t.key, env)
           c == t.client
       IN  IF r.success /\ c \in DOMAIN pollingConfigs
           THEN \* processMessages fetches again and awaits
                /\ tasks' = (tasks (-) One(t)) (+) One(Processing(t, env))
                /\ emitted' = <<>>
                /\ UNCHANGED <<status, clients, pollingConfigs, intervals,
                               timers, stoppedOnError>>
           ELSE IF r.success
           THEN \* processMessages returns at once: no config
                Complete(t, resetErrorCount(updateClientActivity(Store, c), c),
                         FALSE)
           ELSE Complete(t, handlePollingError(Store, c), ThresholdHit(Store, c))
    /\ UNCHANGED notP

\* processMessages resumes after its own `await this.apiService.fetchMessages(key)`
ProcessDone(t, env) ==
    /\ BagIn(t, tasks)
    /\ t.pc = "process"
    /\ LET r == fetchMessages(t.key, env)
           c == t.client
           S1 == IF r.success /\ r.messagesProcessed > 0
                    /\ getSocketById(c) # "null"
                 THEN incrementMessageCount(Store, c, r.messagesProcessed)
                 ELSE Store
       IN  Complete(t, resetErrorCount(updateClientActivity(S1, c), c), FALSE)
    /\ UNCHANGED notP

\* ChatServer.handleDisconnection
Disconnect(c) ==
    /\ status[c] = "connected"
    /\ status' = [status EXCEPT ![c] = "gone"]
    /\ Commit(stopPolling(Store, c))
    /\ tasks' = MarkStale(tasks, c)
    /\ emitted' = <<>>
    /\ UNCHANGED stoppedOnError
    /\ UNCHANGED notP

----------------------------------------------------------------------------
(* SecurityMiddleware.rateLimit, the Express middleware of ChatServer      *)

Origins == {"ip1", "ip2"}

\* the settings of RATE_LIMIT_MAX_REQUESTS modelled
MaxRequestsValues == {SmallMaxRequests, RATE_LIMIT_MAX_REQUESTS}

\* the amounts of time, in ms, that pass between two events
ClockSteps == {1, RATE_LIMIT_WINDOW - 1}

\* a / b rounded down
CeilRoundsDown(a, b) == a \div b

\* Math.ceil(a / b)
Ceil(a, b) == -((-a) \div b)

\* cleanupExpiredCounters that empties the map once one window has expired
cleanupExpiredCountersClearsAll(counts, t) ==
    IF \E i \in DOMAIN counts : t > counts[i].resetTime
    THEN [i \in {} |-> counts[i]]
    ELSE counts

\* cleanupExpiredCounters that purges nothing
cleanupExpiredCountersKeepsAll(counts, t) == counts

\* SecurityMiddleware.cleanupExpiredCounters
cleanupExpiredCounters(counts, t) ==
    [ip \in {i \in DOMAIN counts : ~(t > counts[i].resetTime)} |-> counts[ip]]

Admitted(ip) == [ip |-> ip, status |-> "next"]
Rejected(ip, retryAfter) == [ip |-> ip, status |-> "429", retryAfter |-> retryAfter]

\* rateLimit rejecting only when the count is above the maximum
rateLimitAboveMax(counts, ip, t, max) ==
    LET live == cleanupExpiredCounters(counts, t) IN
    IF (IF ip \in DOMAIN live THEN t > live[ip].resetTime ELSE TRUE)
    THEN [counts |-> MapSet(live, ip, [count |-> 1,
                                       resetTime |-> t + RATE_LIMIT_WINDOW]),
          reply |-> Admitted(ip)]
    ELSE IF live[ip].count > max
    THEN [counts |-> live,
          reply |-> Rejected(ip, Ceil(live[ip].resetTime - t, 1000))]
    ELSE [counts |-> [live EXCEPT ![ip].count = @ + 1],
          reply |-> Admitted(ip)]

\* rateLimit opening a new window as soon as now reaches resetTime
rateLimitRollAtReset(counts, ip, t, max) ==
    LET live == cleanupExpiredCounters(counts, t) IN
    IF (IF ip \in DOMAIN live THEN t >= live[ip].resetTime ELSE TRUE)
    THEN [counts |-> MapSet(live, ip, [count |-> 1,
                                       resetTime |-> t + RATE_LIMIT_WINDOW]),
          reply |-> Admitted(ip)]
    ELSE IF live[ip].count >= max
    THEN [counts |-> live,
          reply |-> Rejected(ip, Ceil(live[ip].resetTime - t, 1000))]
    ELSE [counts |-> [live EXCEPT ![ip].count = @ + 1],
          reply |-> Admitted(ip)]

\* rateLimit starting the window again when it rejects
rateLimitExtendsBlock(counts, ip, t, max) ==
    LET live == cleanupExpiredCounters(counts, t) IN
    IF (IF ip \in DOMAIN live THEN t > live[ip].resetTime ELSE TRUE)
    THEN [counts |-> MapSet(live, ip, [count |-> 1,
                                       resetTime |-> t + RATE_LIMIT_WINDOW]),
          reply |-> Admitted(ip)]
    ELSE IF live[ip].count >= max
    THEN [counts |-> [live EXCEPT ![ip].resetTime = t + RATE_LIMIT_WINDOW],
          reply |-> Rejected(ip, Ceil(live[ip].resetTime - t, 1000))]
    ELSE [counts |-> [live EXCEPT ![ip].count = @ + 1],
          reply |-> Admitted(ip)]

\* SecurityMiddleware.rateLimit for a request of ip at time t:
\* the requestCounts it leaves and what it answers
rateLimit(counts, ip, t, max) ==
    LET live == cleanupExpiredCounters(counts, t) IN
    IF (IF ip \in DOMAIN live THEN t > live[ip].resetTime ELSE TRUE)
    THEN [counts |-> MapSet(live, ip, [count |-> 1,
                                       resetTime |-> t + RATE_LIMIT_WINDOW]),
          reply |-> Admitted(ip)]
    ELSE IF live[ip].count >= max
    THEN [counts |-> live,
          reply |-> Rejected(ip, Ceil(live[ip].resetTime - t, 1000))]
    ELSE [counts |-> [live EXCEPT ![ip].count = @ + 1],
          reply |-> Admitted(ip)]

\* history: the window of ip is over at time t
WindowOver(ip, t) ==
    IF ip \in DOMAIN firstAt THEN t > firstAt[ip] + RATE_LIMIT_WINDOW ELSE TRUE

\* the requests of one origin in one window that the model follows
Quota(ip) == IF ip = "ip1" THEN maxRequests + MaxExtra ELSE SmallMaxRequests + MaxExtra

\* an HTTP request of origin ip reaches the Express application
HttpRequest(ip) ==
    /\ IF WindowOver(ip, now) THEN TRUE ELSE requestsMade[ip] < Quota(ip)
    /\ LET r == rateLimit(requestCounts, ip, now, maxRequests) IN
         /\ requestCounts' = r.counts
         /\ reply' = r.reply
         /\ everRejected' = IF r.reply.status = "429"
                            THEN everRejected \cup {ip} ELSE everRejected
    /\ solo' = [solo EXCEPT
                   ![ip] = rateLimit(solo[ip], ip, now, maxRequests).counts]
    /\ IF WindowOver(ip, now)
       THEN /\ firstAt' = MapSet(firstAt, ip, now)
            /\ requestsMade' = MapSet(requestsMade, ip, 1)
       ELSE /\ firstAt' = firstAt
            /\ requestsMade' = [requestsMade EXCEPT ![ip] = @ + 1]
    /\ UNCHANGED <<maxRequests, now, advances>>
    /\ UNCHANGED notL

\* time passes
ClockAdvance(d) ==
    /\ advances < MaxAdvances
    /\ now' = now + d
    /\ advances' = advances + 1
    /\ UNCHANGED <<maxRequests, requestCounts, reply, firstAt, everRejected,
                   solo, requestsMade>>
    /\ UNCHANGED notL

\* the rate limiter before its first request, with the default configuration
LIdle ==
    /\ maxRequests = RATE_LIMIT_MAX_REQUESTS
    /\ requestCounts = EmptyMap
    /\ now = 0
    /\ advances = 0
    /\ reply = [status |-> "none"]
    /\ firstAt = EmptyMap
    /\ everRejected = {}
    /\ solo = [ip \in Origins |-> EmptyMap]
    /\ requestsMade = EmptyMap

LInit ==
    /\ maxRequests \in MaxRequestsValues
    /\ requestCounts = EmptyMap
    /\ now = 0
    /\ advances = 0
    /\ reply = [status |-> "none"]
    /\ firstAt = EmptyMap
    /\ everRejected = {}
    /\ solo = [ip \in Origins |-> EmptyMap]
    /\ requestsMade = EmptyMap

----------------------------------------------------------------------------
(* ApiService on its own: fetchMessages called again and again on one      *)
(* remote source                                                           *)

Range(f) == {f[i] : i \in DOMAIN f}

\* the keys fetchMessages is called with
ApiKeys == {KeyA, KeySpaced, KeyLong, <<>>}

\* how many attempts of one call fail before the remote source answers
ApiFails == 0..(API_RETRY_ATTEMPTS + 1)

\* a response of more valid entries than the batch maximum, all different
LongArray == [i \in 1..(MAX_MESSAGES_PER_BATCH + MaxBeyondCap) |-> i]

\* the response bodies served; -1 is an entry that is no string, 0 an empty
\* string
ApiBodies ==
    {Body("empty", <<>>), Body("notArray", <<>>), Body("array", <<>>),
     Body("array", <<7, 8>>),
     Body("array", <<0, 7, MAX_MESSAGE_LENGTH + 1, -1, MAX_MESSAGE_LENGTH>>),
     Body("array", LongArray)}

\* one call of ApiService.fetchMessages
ApiFetchMessages(key, fails) ==
    LET env == [fails |-> fails, body |-> apiBody]
        r == fetchMessages(key, env)
    IN  /\ apiCall' = [made |-> TRUE, key |-> key, fails |-> fails,
                        delays |-> IF isValidKey(Str(key))
                                   THEN makeRequestWithRetry(env).delays
                                   ELSE <<>>,
                        returned |-> IF r.success
                                     THEN processApiResponse(apiBody)
                                     ELSE <<>>]
        /\ apiResult' = r
        /\ apiReturned' = IF r.success
                          THEN apiReturned \cup Range(processApiResponse(apiBody))
                          ELSE apiReturned
        /\ UNCHANGED apiBody
        /\ UNCHANGED notA

\* ApiService with no call made
AIdle ==
    /\ apiBody = Body("empty", <<>>)
    /\ apiCall = [made |-> FALSE]
    /\ apiResult = [made |-> FALSE]
    /\ apiReturned = {}

AInit ==
    /\ apiBody \in ApiBodies
    /\ apiCall = [made |-> FALSE]
    /\ apiResult = [made |-> FALSE]
    /\ apiReturned = {}

----------------------------------------------------------------------------
TaskSet == BagToSet(tasks)
Keys == {KeyA, KeyB}

\* the global relay, not running
RIdle ==
    /\ connected = {}
    /\ globalInterval = FALSE
    /\ liveIntervals = 0
    /\ lastIndex = 0
    /\ currentKey = <<>>
    /\ remote = EmptyMap
    /\ fetches = EmptyBag
    /\ delivered = EmptyMap
    /\ joinIndex = EmptyMap
    /\ polledKeys = {}
    /\ subscribed = EmptyMap
    /\ joinedAlone = {}
    /\ shrunk = FALSE

PInit ==
    /\ status = [c \in {"c1"} |-> "new"]
    /\ clients = EmptyMap
    /\ pollingConfigs = EmptyMap
    /\ intervals = EmptyMap
    /\ timers = EmptyBag
    /\ tasks = EmptyBag
    /\ emitted = <<>>
    /\ stoppedOnError = {}

Init == PInit /\ RIdle /\ LIdle /\ AIdle

Next ==
    \/ \E c \in Sockets : Connect(c)
    \/ \E c \in Sockets, data \in Requests : StartPolling(c, data)
    \/ \E c \in Sockets, key \in Keys : Tick(c, key)
    \/ \E t \in TaskSet, env \in PollEnvs : FetchDone(t, env)
    \/ \E t \in TaskSet, env \in PollEnvs : ProcessDone(t, env)
    \/ \E c \in Sockets : Disconnect(c)

Spec == Init /\ [][Next]_vars

----------------------------------------------------------------------------
(* The global relay of src/server.ts                                       *)
(* A remote entry is "json" (JSON.parse returns a message) or "bad"        *)
(* (JSON.parse throws).  The message parsed from the entry at position i   *)
(* of the log of key k is written <<k, i>>.                                *)

RelaySockets == {"s1", "s2"}
RelayKeys == {KeyA, KeyB}
\* The logs the remote source serves, as far as they have grown: remote[k] is
\* the number of entries of the log of key k.  The second entry of the log of
\* KeyB is not JSON; every other entry is.
EntryAt(k, i) == IF k = KeyB /\ i = 2 THEN "bad" ELSE "json"

Log(k) == [i \in 1..remote[k] |-> EntryAt(k, i)]

Fetch(key, seen, kind) == [key |-> key, seen |-> seen, kind |-> kind]

\* a loop that sets the cursor to the length of the response when it is done
EmitLoopToLength(idx, rawMsgs) == Len(rawMsgs)

\* a loop that starts again from 0 when the response is shorter than the cursor
RECURSIVE EmitLoopRestarts(_, _)
EmitLoopRestarts(idx, rawMsgs) ==
    IF idx > Len(rawMsgs) THEN EmitLoopRestarts(0, rawMsgs)
    ELSE IF idx < Len(rawMsgs)
    THEN IF rawMsgs[idx + 1] = "json"
         THEN EmitLoopRestarts(idx + 1, rawMsgs)
         ELSE idx
    ELSE idx

\* the while loop of fetchAndEmit: the cursor it leaves, from cursor idx, on
\* the array rawMsgs; JSON.parse throwing leaves the loop through the catch
RECURSIVE EmitLoop(_, _)
EmitLoop(idx, rawMsgs) ==
    IF idx < Len(rawMsgs)
    THEN IF rawMsgs[idx + 1] = "json"
         THEN EmitLoop(idx + 1, rawMsgs)      \* io.emit; lastIndex++
         ELSE idx                             \* JSON.parse throws
    ELSE idx

\* the 'new_message' events one run of the loop broadcasts
Emitted(key, from, to) == [i \in 1..(to - from) |-> <<key, from + i>>]

NumPendingStarts ==
    BagCardinality([x \in {y \in BagToSet(fetches) : y.kind = "start"} |->
                       fetches[x]])

\* fetchAndEmit with a non-empty currentKey, up to `await axios.get`
CallFetchAndEmit(key, kind) ==
    /\ fetches' = fetches (+) One(Fetch(key, Len(Log(key)), kind))
    /\ polledKeys' = polledKeys \cup {key}

\* io.on('connection')
RConnect(c) ==
    /\ c \notin connected
    /\ connected' = connected \cup {c}
    /\ delivered' = MapSet(delivered, c, <<>>)
    /\ joinIndex' = MapSet(joinIndex, c, lastIndex)
    /\ joinedAlone' = IF connected = {} THEN joinedAlone \cup {c} ELSE joinedAlone
    /\ UNCHANGED <<globalInterval, liveIntervals, lastIndex, currentKey, remote,
                   fetches, polledKeys, subscribed>>
    /\ UNCHANGED shrunk
    /\ UNCHANGED notR

\* socket.on('startPolling'), up to the await of fetchAndEmit
RStartPolling(c, key) ==
    /\ c \in connected
    /\ currentKey' = key
    /\ IF globalInterval
       THEN UNCHANGED <<globalInterval, liveIntervals, fetches, polledKeys>>
       ELSE /\ BagCardinality(fetches) < MaxFetches
            /\ liveIntervals + NumPendingStarts < MaxIntervals
            /\ CallFetchAndEmit(key, "start")
            /\ UNCHANGED <<globalInterval, liveIntervals>>
    /\ subscribed' = MapSet(subscribed, c, key)
    /\ UNCHANGED <<connected, lastIndex, remote, delivered, joinIndex,
                   joinedAlone>>
    /\ UNCHANGED shrunk
    /\ UNCHANGED notR

\* a timer set by setInterval(fetchAndEmit, 3000) fires
RTick ==
    /\ liveIntervals > 0
    /\ currentKey # <<>>
    /\ BagCardinality(fetches) < MaxFetches
    /\ CallFetchAndEmit(currentKey, "tick")
    /\ UNCHANGED <<connected, globalInterval, liveIntervals, lastIndex,
                   currentKey, remote, delivered, joinIndex, subscribed,
                   joinedAlone>>
    /\ UNCHANGED shrunk
    /\ UNCHANGED notR

\* the continuation of `await fetchAndEmit()` in the startPolling handler
AfterFetch(f) ==
    IF f.kind = "start"
    THEN globalInterval' = TRUE /\ liveIntervals' = liveIntervals + 1
    ELSE UNCHANGED <<globalInterval, liveIntervals>>

\* fetchAndEmit resumes: axios.get returned the first len entries of the log
RFetchOk(f, len) ==
    /\ BagIn(f, fetches)
    /\ len \in f.seen..Len(Log(f.key))
    /\ LET rawMsgs == SubSeq(Log(f.key), 1, len)
           end == EmitLoop(lastIndex, rawMsgs)
       IN  /\ lastIndex' = end
           /\ delivered' = [c \in DOMAIN delivered |->
                               IF c \in connected
                               THEN delivered[c] \o Emitted(f.key, lastIndex, end)
                               ELSE delivered[c]]
    /\ fetches' = fetches (-) One(f)
    /\ AfterFetch(f)
    /\ UNCHANGED <<connected, currentKey, remote, joinIndex, polledKeys,
                   subscribed, joinedAlone>>
    /\ shrunk' = (len < lastIndex)
    /\ UNCHANGED notR

\* fetchAndEmit resumes: axios.get threw
RFetchFail(f) ==
    /\ BagIn(f, fetches)
    /\ fetches' = fetches (-) One(f)
    /\ AfterFetch(f)
    /\ UNCHANGED <<connected, lastIndex, currentKey, remote, delivered,
                   joinIndex, polledKeys, subscribed, joinedAlone>>
    /\ UNCHANGED shrunk
    /\ UNCHANGED notR

\* socket.on('disconnect'); io.engine.clientsCount no longer counts the socket
RDisconnect(c) ==
    /\ c \in connected
    /\ connected' = connected \ {c}
    /\ IF connected' = {} /\ globalInterval
       THEN /\ liveIntervals' = liveIntervals - 1
            /\ globalInterval' = FALSE
            /\ lastIndex' = 0
            /\ currentKey' = <<>>
            /\ polledKeys' = {f.key : f \in BagToSet(fetches)}
       ELSE UNCHANGED <<liveIntervals, globalInterval, lastIndex, currentKey,
                        polledKeys>>
    /\ delivered' = MapDelete(delivered, c)
    /\ joinIndex' = MapDelete(joinIndex, c)
    /\ subscribed' = MapDelete(subscribed, c)
    /\ joinedAlone' = joinedAlone \ {c}
    /\ UNCHANGED <<remote, fetches>>
    /\ UNCHANGED shrunk
    /\ UNCHANGED notR

\* the remote source appends an entry to the log of a key
RemoteAppend(k) ==
    /\ remote[k] < MaxLog
    /\ remote' = [remote EXCEPT ![k] = @ + 1]
    /\ UNCHANGED <<connected, globalInterval, liveIntervals, lastIndex,
                   currentKey, fetches, delivered, joinIndex, polledKeys,
                   subscribed, joinedAlone>>
    /\ UNCHANGED shrunk
    /\ UNCHANGED notR

FetchSet == BagToSet(fetches)

RInit ==
    /\ connected = {}
    /\ globalInterval = FALSE
    /\ liveIntervals = 0
    /\ lastIndex = 0
    /\ currentKey = <<>>
    /\ remote = [k \in RelayKeys |-> 0]
    /\ fetches = EmptyBag
    /\ delivered = EmptyMap
    /\ joinIndex = EmptyMap
    /\ polledKeys = {}
    /\ subscribed = EmptyMap
    /\ joinedAlone = {}
    /\ shrunk = FALSE

\* the PollingService revision, not running
PIdle ==
    /\ status = EmptyMap
    /\ clients = EmptyMap
    /\ pollingConfigs = EmptyMap
    /\ intervals = EmptyMap
    /\ timers = EmptyBag
    /\ tasks = EmptyBag
    /\ emitted = <<>>
    /\ stoppedOnError = {}

RelayNext ==
    \/ \E c \in RelaySockets : RConnect(c)
    \/ \E c \in RelaySockets, key \in RelayKeys : RStartPolling(c, key)
    \/ RTick
    \/ \E f \in FetchSet, len \in 0..MaxLog : RFetchOk(f, len)
    \/ \E f \in FetchSet : RFetchFail(f)
    \/ \E c \in RelaySockets : RDisconnect(c)
    \/ \E k \in RelayKeys : RemoteAppend(k)

RelayInit == RInit /\ PIdle /\ LIdle /\ AIdle

SpecRelay == RelayInit /\ [][RelayNext]_vars

----------------------------------------------------------------------------
(* The rate limiter alone                                                  *)

RateInit == LInit /\ PIdle /\ RIdle /\ AIdle

RateNext ==
    \/ \E ip \in Origins : HttpRequest(ip)
    \/ \E d \in ClockSteps : ClockAdvance(d)

SpecRate == RateInit /\ [][RateNext]_vars

----------------------------------------------------------------------------
(* ApiService alone; ApiFair adds that a caller which keeps polling gets   *)
(* successful fetches again and again                                      *)

ApiInit == AInit /\ PIdle /\ RIdle /\ LIdle

ApiNext == \E key \in ApiKeys, fails \in ApiFails : ApiFetchMessages(key, fails)

\* a fetchMessages call for a valid key that the remote source answers
ApiSuccess == \E fails \in 0..(API_RETRY_ATTEMPTS - 1) : ApiFetchMessages(KeyA, fails)

SpecApi == ApiInit /\ [][ApiNext]_vars

SpecApiFair == ApiInit /\ [][ApiNext]_vars /\ SF_vars(ApiSuccess)

----------------------------------------------------------------------------
(* ChatServer behind its Express middleware: HTTP requests pass rateLimit, *)
(* WebSocket events go to the handlers of handleConnection                 *)

\* socket.handshake.address
originOf(c) == IF c = "c1" THEN "ip1" ELSE "ip2"

AdmissionInit ==
    PInit /\ RIdle /\ LInit /\ AIdle /\ maxRequests = SmallMaxRequests

AdmissionNext ==
    \/ Next
    \/ \E c \in Sockets : HttpRequest(originOf(c))

SpecAdmission == AdmissionInit /\ [][AdmissionNext]_vars

----------------------------------------------------------------------------
(* Properties of the PollingService revision, checked under Spec           *)

NumErrors(evs, c) ==
    Cardinality({i \in 1..Len(evs) : evs[i].to = c /\ evs[i].type = "error"})
NumMessages(evs, c) ==
    Cardinality({i \in 1..Len(evs) :
                    evs[i].to = c /\ evs[i].type = "new_message"})
HasPoller(c) ==
    \/ c \in DOMAIN clients
    \/ c \in DOMAIN pollingConfigs
    \/ c \in DOMAIN intervals
    \/ NumTimers(c) > 0
\* the step in which the failure threshold stops the poller of c
JustStopped(c) == c \notin stoppedOnError /\ c \in stoppedOnError'
\* a tick of c ends in this step
TickEnds(c) ==
    \E t \in TaskSet, env \in PollEnvs :
        /\ t.client = c
        /\ \/ ProcessDone(t, env)
           \/ FetchDone(t, env) /\ ~BagIn(Processing(t, env), tasks')

\* C2: when a tick's fetch succeeds with a fetched length L above the
\* client's cursor (PollingConfig.lastIndex), the entries at the positions
\* cursor..L-1 are emitted to the client's socket and the cursor becomes L.
C2_TickDelivers ==
    [][\A t \in TaskSet, env \in PollEnvs :
         LET c == t.client
             L == fetchMessages(t.key, env).messagesProcessed
         IN  (/\ ProcessDone(t, env)
              /\ c \in DOMAIN pollingConfigs
              /\ fetchMessages(t.key, env).success
              /\ L > pollingConfigs[c].lastIndex)
             => /\ c \in DOMAIN pollingConfigs'
                /\ pollingConfigs'[c].lastIndex = L
                /\ NumMessages(emitted', c) = L - pollingConfigs[c].lastIndex
      ]_vars

\* C3: once the disconnect of a connection has been handled, no tick and no
\* fetchMessages call is started for that connection any more.
C3_NoPollingAfterDisconnect ==
    [][\A c \in Sockets :
         status[c] = "gone" =>
            /\ \A key \in Keys : ~Tick(c, key)
            /\ \A t \in TaskSet, env \in PollEnvs :
                 (t.client = c /\ FetchDone(t, env))
                    => ~BagIn(Processing(t, env), tasks')
      ]_vars

\* C4: when the failure counter of a poller reaches 5, its timer is cancelled
\* and its state removed, and no tick starts for that connection until a new
\* startPolling from it arrives.
C4_ThresholdStops ==
    [][\A c \in Sockets :
         /\ JustStopped(c) =>
               /\ c \notin DOMAIN clients'
               /\ c \notin DOMAIN pollingConfigs'
               /\ c \notin DOMAIN intervals'
               /\ NumTimers(c)' = 0
         /\ c \in stoppedOnError => \A key \in Keys : ~Tick(c, key)
      ]_vars

\* C5: the step that stops a poller on the failure threshold sends exactly one
\* error event to its connection, and a failed tick below the threshold sends
\* none.
C5_ThresholdNotifies ==
    [][\A c \in Sockets :
         /\ JustStopped(c) => NumErrors(emitted', c) = 1
         /\ (TickEnds(c) /\ ~JustStopped(c)) => NumErrors(emitted', c) = 0
      ]_vars

\* C6: for one connection and key at most one tick is in flight at any time.
C6_TicksSerialized ==
    \A c \in Sockets, key \in Keys :
        BagCardinality([t \in {x \in TaskSet : /\ x.client = c
                                                /\ x.key = key
                                                /\ x.kind = "tick"} |->
                           tasks[t]]) <= 1

\* C7: a startPolling request is accepted (a poller created or the
\* acknowledgment sent) if and only if the key as the client sent it is a
\* string of 1 to 100 characters of [a-zA-Z0-9_-]; every other request is
\* rejected with an error.
C7_KeyValidityAsSent ==
    [][\A c \in Sockets, data \in Requests :
         StartPolling(c, data) =>
            IF isValidKey(data.key) /\ data.isObject
            THEN NumErrors(emitted', c) = 0
            ELSE /\ NumErrors(emitted', c) = 1
                 /\ tasks' = tasks
                 /\ NumMessages(emitted', c) = 0
                 /\ \A i \in 1..Len(emitted') :
                       emitted'[i].type # "polling_started"
      ]_vars

\* C8: a startPolling request with an invalid key, on a connection without a
\* poller, is answered with an error event, starts no fetch and creates no
\* ClientInfo, no PollingConfig and no timer.
C8_InvalidKeyNoPoller ==
    [][\A c \in Sockets, data \in Requests :
         (StartPolling(c, data) /\ ~isValidKey(data.key) /\ ~HasPoller(c))
            => /\ NumErrors(emitted', c) = 1
               /\ tasks' = tasks
               /\ ~HasPoller(c)'
      ]_vars

\* C9: a startPolling request rejected for an invalid key leaves the clients,
\* pollingConfigs and intervals maps and every timer as they were.
C9_RejectionMutatesNothing ==
    [][\A c \in Sockets, data \in Requests :
         (StartPolling(c, data) /\ NumErrors(emitted', c) > 0)
            => /\ clients' = clients
               /\ pollingConfigs' = pollingConfigs
               /\ intervals' = intervals
               /\ timers' = timers
      ]_vars

\* C10: whenever the acknowledgment carrying key K is emitted to a connection,
\* the poller of that connection is polling K (a startPolling for a new valid
\* key replaces the subscription).
C10_AckMatchesPoller ==
    [][\A i \in 1..Len(emitted') :
         emitted'[i].type = "polling_started" =>
            /\ emitted'[i].to \in DOMAIN pollingConfigs'
            /\ pollingConfigs'[emitted'[i].to].key = emitted'[i].key
            /\ emitted'[i].to \in DOMAIN clients'
            /\ clients'[emitted'[i].to].pollingKey = emitted'[i].key
      ]_vars


----------------------------------------------------------------------------
(* Properties of the global relay, checked under SpecRelay                 *)

\* every entry the remote source serves for key k so far parses as JSON
WellFormed(k) == \A i \in 1..remote[k] : EntryAt(k, i) = "json"

\* connection c has been connected since the cursor was created and every
\* fetch whose response can reach the cursor was for key k
FromFirstTick(c, k) ==
    /\ c \in connected
    /\ joinIndex[c] = 0
    /\ polledKeys = {k}

\* For well-formed entries: the connection has received positions
\* 1..lastIndex of the log, each once and in order, and a response of len
\* entries leaves the cursor at len or beyond.
DedupRelayWellFormed ==
    [][/\ \A c \in RelaySockets, k \in RelayKeys :
            (FromFirstTick(c, k)' /\ WellFormed(k)')
               => delivered'[c] = Emitted(k, 0, lastIndex')
       /\ \A f \in FetchSet, len \in 0..MaxLog :
            (RFetchOk(f, len) /\ WellFormed(f.key)) => lastIndex' >= len
     ]_vars

\* C1: a connection that stays connected from the first tick of the polled
\* key has received exactly the positions 1..lastIndex of the remote sequence,
\* in order and each once, and when a fetch returns the first len entries of
\* the sequence the connection has received every one of them (none skipped),
\* in every interleaving of ticks, responses and appends.
C1_DedupRelay ==
    [][\A c \in RelaySockets, k \in RelayKeys :
          FromFirstTick(c, k)'
             => /\ delivered'[c] = Emitted(k, 0, lastIndex')
                /\ \A f \in FetchSet, len \in 0..MaxLog :
                      (f.key = k /\ RFetchOk(f, len))
                         => Len(delivered'[c]) >= len
     ]_vars

\* C17: a malformed entry does not block the relay: when a response arrives
\* whose entry at the cursor position is not well-formed JSON, the entry is
\* dropped and the cursor moves past it.
C17_MalformedSkipped ==
    [][\A f \in FetchSet, len \in 0..MaxLog :
          (/\ RFetchOk(f, len)
           /\ lastIndex < len
           /\ EntryAt(f.key, lastIndex + 1) = "bad")
             => lastIndex' > lastIndex
     ]_vars

\* C18: an entry fetched for key K is emitted only to the connections whose
\* latest startPolling named K; a connection that sent no startPolling, or
\* one for another key, receives nothing.
C18_DeliveryIsolation ==
    [][\A f \in FetchSet, len \in 0..MaxLog :
          RFetchOk(f, len)
             => \A c \in connected :
                   delivered'[c] # delivered[c]
                      => /\ c \in DOMAIN subscribed
                         /\ subscribed[c] = f.key
     ]_vars

\* the connected sockets whose latest startPolling named key k
Subscribers(k) == {c \in connected : c \in DOMAIN subscribed /\ subscribed[c] = k}

\* C19: a fetch for key K is issued only while a connected client subscribed
\* to K exists: no timer tick fetches K after the last subscriber of K has
\* disconnected, whatever other connections remain.
C19_ConditionalPolling ==
    [][RTick => Subscribers(currentKey) # {}]_vars

\* C20: a connection that came after the last client had disconnected and
\* subscribed to K (the only key polled since) has received the positions
\* 1..lastIndex of the log of K: the cursor it is served from started at 0,
\* also when a fetch was in flight at the last disconnect.
C20_ReplayAfterTeardown ==
    \A c \in connected, k \in RelayKeys :
        (/\ c \in joinedAlone
         /\ c \in DOMAIN subscribed
         /\ subscribed[c] = k
         /\ polledKeys \subseteq {k})
           => delivered[c] = Emitted(k, 0, lastIndex)

----------------------------------------------------------------------------
(* Properties of the rate limiter, checked under SpecRate and              *)
(* SpecAdmission                                                           *)

\* rateLimit would reject a request of ip made now
Exhausted(ip) ==
    IF ip \in DOMAIN requestCounts
    THEN requestCounts[ip].count >= maxRequests /\ now <= requestCounts[ip].resetTime
    ELSE FALSE

\* C11: a startPolling from an origin whose rate window is exhausted is
\* answered with an error and creates no poller and no immediate fetch.
C11_AdmissionGate ==
    [][\A c \in Sockets, data \in Requests :
          (StartPolling(c, data) /\ Exhausted(originOf(c)))
             => /\ NumErrors(emitted', c) > 0
                /\ ~HasPoller(c) => ~HasPoller(c)'
                /\ tasks' = tasks
     ]_vars

\* C12: the k-th request of an origin inside one window (before resetTime =
\* time of the window's first request + W) is admitted iff k <= N, a rejection
\* carries retryAfter = ceil((resetTime - now) / 1000), and the first request
\* of a fresh window (no window yet, or now past resetTime) is admitted.
C12_RateLimit ==
    [][\A ip \in Origins :
          HttpRequest(ip)
             => IF WindowOver(ip, now)
                THEN reply' = Admitted(ip)
                ELSE IF now < firstAt[ip] + RATE_LIMIT_WINDOW
                THEN IF requestsMade[ip] < maxRequests
                     THEN reply' = Admitted(ip)
                     ELSE reply' = Rejected(ip,
                            Ceil(firstAt[ip] + RATE_LIMIT_WINDOW - now, 1000))
                ELSE TRUE
     ]_vars

\* the request after the maximum (the 101st for N = 100) was rejected one
\* millisecond before the window ends, with retryAfter 1
C12_Witness ==
    /\ reply.status = "429"
    /\ maxRequests = RATE_LIMIT_MAX_REQUESTS
    /\ requestsMade[reply.ip] = RATE_LIMIT_MAX_REQUESTS + 1
    /\ reply.retryAfter = 1

\* C13: a request of an origin arriving at now = resetTime (window start + W)
\* or later is allowed and starts a new window with count 1 and expiry now + W.
C13_RolloverAtReset ==
    [][\A ip \in Origins :
          (/\ HttpRequest(ip)
           /\ ip \in DOMAIN firstAt
           /\ requestsMade[ip] >= maxRequests
           /\ now >= firstAt[ip] + RATE_LIMIT_WINDOW)
             => /\ reply' = Admitted(ip)
                /\ requestCounts'[ip] =
                     [count |-> 1, resetTime |-> now + RATE_LIMIT_WINDOW]
     ]_vars

\* C13 amended: a request arriving later than resetTime is allowed and starts
\* a new window with count 1 and expiry now + W; a request arriving at exactly
\* now = resetTime still belongs to the old window and is rejected, with
\* retryAfter 0, when the maximum was reached.
C13_RolloverAfterReset ==
    [][\A ip \in Origins :
          (/\ HttpRequest(ip)
           /\ ip \in DOMAIN firstAt
           /\ requestsMade[ip] >= maxRequests)
             => /\ now > firstAt[ip] + RATE_LIMIT_WINDOW
                     => /\ reply' = Admitted(ip)
                        /\ requestCounts'[ip] =
                             [count |-> 1, resetTime |-> now + RATE_LIMIT_WINDOW]
                /\ now = firstAt[ip] + RATE_LIMIT_WINDOW
                     => /\ reply' = Rejected(ip, 0)
                        /\ requestCounts'[ip] = requestCounts[ip]
     ]_vars

\* an origin that had been rejected was admitted after its window rolled over
C13_Witness ==
    /\ reply.status = "next"
    /\ reply.ip \in everRejected
    /\ requestCounts[reply.ip] =
         [count |-> 1, resetTime |-> now + RATE_LIMIT_WINDOW]

----------------------------------------------------------------------------
(* Response shapes in a tick of PollingService, checked under Spec         *)

\* the remote source answers within the attempts, with a body that has no
\* field or whose first field is no array
Lenient(env) ==
    /\ env.fails < API_RETRY_ATTEMPTS
    /\ env.body.shape \in {"empty", "notArray"}

LenientEnvs == {env \in PollEnvs : Lenient(env)}

ErrorCount(c) == pollingConfigs[c].errorCount

\* C15: a response without a field, or whose first field is no array, is a
\* successful fetch of zero entries; the tick it arrives in goes on as a
\* success: the failure counter is not incremented and the poller is not
\* stopped when the response arrives, the counter is 0 when the tick ends, and
\* no error is emitted to the client.
C15_LenientShape ==
    [][\A t \in TaskSet :
          /\ \A env \in LenientEnvs :
             FetchDone(t, env)
                => /\ fetchMessages(t.key, env).success
                   /\ fetchMessages(t.key, env).messagesProcessed = 0
                   /\ NumErrors(emitted', t.client) = 0
                   /\ stoppedOnError' = stoppedOnError
                   /\ t.client \in DOMAIN pollingConfigs
                         => /\ pollingConfigs' = pollingConfigs
                            /\ \E u \in BagToSet(tasks') :
                                  /\ u.client = t.client
                                  /\ u.pc = "process"
                                  /\ u.first = env.body.shape
          /\ \A env \in PollEnvs :
             (t.first \in {"empty", "notArray"} /\ ProcessDone(t, env))
                => /\ NumErrors(emitted', t.client) = 0
                   /\ stoppedOnError' = stoppedOnError
                   /\ t.client \in DOMAIN pollingConfigs'
                         => ErrorCount(t.client)' = 0
     ]_vars

\* a tick whose response had no array goes on in processMessages, for a
\* poller whose failure counter is above 0
C15_Witness ==
    \E t \in TaskSet :
        /\ t.pc = "process"
        /\ t.first \in {"empty", "notArray"}
        /\ t.kind = "tick"
        /\ t.client \in DOMAIN pollingConfigs
        /\ ErrorCount(t.client) > 0

----------------------------------------------------------------------------
(* Properties of ApiService, checked under SpecApi and SpecApiFair         *)

\* C14: a fetchMessages call for a valid key issues at most maxAttempts HTTP
\* requests: one more than the failed attempts when an attempt succeeds, and
\* exactly maxAttempts when every attempt fails; it then returns a failed
\* result carrying the error of the last attempt.
C14_BoundedRetries ==
    [][\A key \in ApiKeys, fails \in ApiFails :
          (ApiFetchMessages(key, fails) /\ isValidKey(Str(key)))
             => /\ apiResult'.requests <= API_RETRY_ATTEMPTS
                /\ fails < API_RETRY_ATTEMPTS
                     => /\ apiResult'.success
                        /\ apiResult'.requests = fails + 1
                /\ fails >= API_RETRY_ATTEMPTS
                     => /\ ~apiResult'.success
                        /\ apiResult'.requests = API_RETRY_ATTEMPTS
                        /\ apiResult'.error = ErrorOf(API_RETRY_ATTEMPTS)
     ]_vars

\* every attempt of a call failed: maxAttempts requests, a failed result
C14_Witness ==
    /\ apiCall.made
    /\ apiCall.fails >= API_RETRY_ATTEMPTS
    /\ apiResult.requests = API_RETRY_ATTEMPTS
    /\ ~apiResult.success
    /\ apiResult.error = ErrorOf(API_RETRY_ATTEMPTS)

\* the valid entries of the response served
ValidEntries == Range(FilterValid(apiBody.msgs))

\* C16: under repeated successful fetches every valid entry of the remote
\* sequence is eventually returned, also the entries beyond the batch cap.
C16_CapNotLost ==
    <>(apiBody.shape = "array" => ValidEntries \subseteq apiReturned)
----------------------------------------------------------------------------
(* Properties of the poller's life cycle, checked under Spec               *)

\* the request data passes sanitizeInput, validateWebSocketInput and isValidKey
Accepted(data) ==
    LET sd == sanitizeInput(data) IN
    validateWebSocketInput(sd) /\ isValidKey(sd.key)

\* the PollingConfig setupClient writes for key k
FreshConfig(k) == [key |-> k, lastIndex |-> 0, errorCount |-> 0]

\* the immediate executePolling of a startPolling of c was started in this step
StartsFetch(c) ==
    \E t \in BagToSet(tasks') :
        /\ t.client = c /\ t.kind = "start" /\ t.pc = "fetch"
        /\ tasks' = tasks (+) One(t)

\* C21: after the failure threshold has stopped the poller of a connection, a
\* new valid startPolling from that connection is a fresh start: it writes a
\* new PollingConfig with errorCount = 0 and lastIndex = 0 and starts one
\* immediate fetch.
C21_RecoveryIsFreshStart ==
    [][\A c \in Sockets, data \in Requests :
         (c \in stoppedOnError /\ Accepted(data) /\ StartPolling(c, data))
            => /\ c \in DOMAIN pollingConfigs'
               /\ pollingConfigs'[c] = FreshConfig(sanitizeInput(data).key.chars)
               /\ StartsFetch(c)
      ]_vars

\* C22: stopPolling is idempotent: in every reachable state, calling it twice
\* for a connection gives the state one call gives; for a connection with no
\* entry in any map it changes nothing; and after the disconnect handler has
\* run it, running it again changes nothing.
C22_StopPollingIdempotent ==
    [][\A c \in Sockets :
         /\ stopPolling(stopPolling(Store, c), c) = stopPolling(Store, c)
         /\ (/\ c \notin DOMAIN clients
             /\ c \notin DOMAIN pollingConfigs
             /\ c \notin DOMAIN intervals) => stopPolling(Store, c) = Store
         /\ Disconnect(c) => stopPolling(Store', c) = Store'
      ]_vars

\* a connection was disconnected while two timers of its poller were live:
\* stopPolling cleared the one the map held
C22_Witness ==
    \E c \in Sockets :
        /\ status[c] = "gone"
        /\ NumTimers(c) > 0
        /\ c \notin DOMAIN intervals

\* the suspended call t resumes in this step
Resumes(t) == CopiesIn(t, tasks') < CopiesIn(t, tasks)

\* C23: a failed fetch that leaves the failure counter below the threshold
\* sends no error event to any connection, and when it is the immediate fetch
\* of a startPolling the request is still acknowledged.
C23_TransientFailuresInvisible ==
    [][\A t \in TaskSet, env \in PollEnvs :
         (/\ Resumes(t)
          /\ ~JustStopped(t.client)
          /\ ~fetchMessages(t.key, env).success
          /\ FetchDone(t, env) \/ ProcessDone(t, env))
            => /\ \A c \in Sockets : NumErrors(emitted', c) = 0
               /\ t.kind = "start"
                     => emitted' = <<Ev(t.client, "polling_started", t.key)>>
      ]_vars

\* a startPolling whose immediate fetch failed has just been acknowledged
C23_Witness ==
    \E c \in Sockets :
        /\ c \in DOMAIN pollingConfigs
        /\ pollingConfigs[c].errorCount = 1
        /\ c \in DOMAIN intervals
        /\ emitted = <<Ev(c, "polling_started", pollingConfigs[c].key)>>

\* the maps and timers of the PollingService are left as they were
PollingStateUnchanged ==
    /\ clients' = clients
    /\ pollingConfigs' = pollingConfigs
    /\ intervals' = intervals
    /\ timers' = timers

\* C24: a tick that resumes after its poller was torn down (disconnect,
\* threshold stop) changes no polling state, also when the connection has
\* started a new poller since.
C24_StaleTickHasNoEffect ==
    [][\A t \in TaskSet, env \in PollEnvs :
         (/\ Resumes(t)
          /\ t.stale
          /\ t.kind = "tick"
          /\ FetchDone(t, env) \/ ProcessDone(t, env))
            => PollingStateUnchanged
      ]_vars

\* C25: every connection has at most one live interval timer, and it has a
\* live timer exactly when the intervals map holds an entry for it.
C25_NoOrphanTimers ==
    \A c \in Sockets :
        /\ NumTimers(c) <= 1
        /\ NumTimers(c) > 0 <=> c \in DOMAIN intervals

\* the immediate executePolling of a startPolling of c returns in this step
StartCycleEnds(c, key) ==
    \E t \in TaskSet :
        /\ t.client = c /\ t.kind = "start" /\ t.key = key
        /\ Resumes(t)
        /\ NumTasks(c)' = NumTasks(c) - 1
        /\ emitted' = <<Ev(c, "polling_started", key)>>

\* C27: an accepted startPolling on a connection without a poller creates the
\* state with lastIndex = 0 and errorCount = 0 and starts one immediate fetch
\* cycle, with no timer and no acknowledgment yet; a timer is scheduled only
\* in a step in which an immediate fetch cycle has run to completion, one
\* timer per cycle, and the acknowledgment is emitted in that step, with the
\* timer live.
C27_StartOrdering ==
    [][\A c \in Sockets :
         /\ \A data \in Requests :
               (~HasPoller(c) /\ Accepted(data) /\ StartPolling(c, data))
                  => /\ c \in DOMAIN pollingConfigs'
                     /\ pollingConfigs'[c] =
                           FreshConfig(sanitizeInput(data).key.chars)
                     /\ StartsFetch(c)
                     /\ timers' = timers
                     /\ intervals' = intervals
                     /\ emitted' = <<>>
         /\ NumTimers(c)' > NumTimers(c)
               => /\ \E key \in Keys : StartCycleEnds(c, key)
                  /\ NumTimers(c)' = NumTimers(c) + 1
         /\ \A key \in Keys :
               StartCycleEnds(c, key)
                  => /\ BagIn(Timer(c, key), timers')
                     /\ c \in DOMAIN intervals'
                     /\ intervals'[c] = key
      ]_vars

\* a startPolling whose immediate fetch cycle succeeded has just been
\* acknowledged, with its timer scheduled
C27_Witness ==
    \E c \in Sockets :
        /\ c \in DOMAIN clients
        /\ clients[c].lastActivity = "polled"
        /\ c \in DOMAIN intervals
        /\ NumTimers(c) = 1
        /\ emitted = <<Ev(c, "polling_started", intervals[c])>>

\* a fetch cycle of c whose first fetchMessages call succeeded ends in this step
CycleSucceeds(c) ==
    \E t \in TaskSet :
        /\ t.client = c /\ t.pc = "process" /\ Resumes(t)
        /\ \E env \in PollEnvs : ProcessDone(t, env)

\* a fetch cycle of c whose fetchMessages call failed ends in this step
CycleFails(c) ==
    \E t \in TaskSet :
        /\ t.client = c /\ t.pc = "fetch" /\ Resumes(t)
        /\ \E env \in PollEnvs :
              ~fetchMessages(t.key, env).success /\ FetchDone(t, env)

\* C28: for a poller that exists before and after a step, the failure counter
\* becomes 0 when a fetch cycle whose fetch succeeded completes, grows by
\* exactly 1 when a cycle whose fetch failed completes, and is left alone by
\* every other step.
C28_FailureCounter ==
    [][\A c \in Sockets :
         (c \in DOMAIN pollingConfigs /\ c \in DOMAIN pollingConfigs')
            => IF CycleSucceeds(c)
               THEN pollingConfigs'[c].errorCount = 0
               ELSE IF CycleFails(c)
               THEN pollingConfigs'[c].errorCount =
                       pollingConfigs[c].errorCount + 1
               ELSE pollingConfigs'[c].errorCount = pollingConfigs[c].errorCount
      ]_vars

\* the fetchMessages calls the cycle t has completed before the one it is
\* suspended in
CallsMade(t) == IF t.pc = "process" THEN 1 ELSE 0

\* C29: whenever a fetchMessages call of a tick returns, it is the only call
\* of that tick, the tick has issued at most API_RETRY_ATTEMPTS HTTP requests
\* (each earlier call took at least one), and a failed call is counted in the
\* failure counter of the poller.
C29_OneFetchPerTick ==
    [][\A t \in TaskSet, env \in PollEnvs :
         (/\ Resumes(t)
          /\ t.kind = "tick"
          /\ FetchDone(t, env) \/ ProcessDone(t, env))
            => LET r == fetchMessages(t.key, env)
                   c == t.client
               IN  /\ CallsMade(t) + 1 = 1
                   /\ CallsMade(t) + r.requests <= API_RETRY_ATTEMPTS
                   /\ (~r.success /\ c \in DOMAIN pollingConfigs)
                         => \/ c \notin DOMAIN pollingConfigs'
                            \/ pollingConfigs'[c].errorCount =
                                  pollingConfigs[c].errorCount + 1
      ]_vars

----------------------------------------------------------------------------
(* Further properties of the global relay, checked under SpecRelay         *)

\* C26: at most one polling interval is live at any time, and none is live
\* while no client is connected.
C26_SingleGlobalTimer ==
    /\ liveIntervals <= 1
    /\ connected = {} => liveIntervals = 0

\* C30: the cursor belongs to the polled key: a startPolling that changes the
\* polled key from K1 to K2 leaves the cursor at 0, and a response fetched
\* for a key that is no longer the polled one is not relayed and does not
\* move the cursor.
C30_CursorBelongsToKey ==
    [][/\ \A c \in RelaySockets, key \in RelayKeys :
             (currentKey \notin {<<>>, key} /\ RStartPolling(c, key))
                => lastIndex' = 0
       /\ \A f \in FetchSet, len \in 0..MaxLog :
             (currentKey \notin {<<>>, f.key} /\ RFetchOk(f, len))
                => /\ lastIndex' = lastIndex
                   /\ delivered' = delivered
      ]_vars

\* the disconnect of the last client clears the interval and discards the cursor
Teardown ==
    \E c \in RelaySockets :
        RDisconnect(c) /\ connected' = {} /\ globalInterval

\* C31: the cursor decreases only in a teardown, which sets it to 0, and it
\* grows only when a response arrives, by one for each entry emitted.
C31_CursorMonotonic ==
    [][/\ lastIndex' < lastIndex => (Teardown /\ lastIndex' = 0)
       /\ lastIndex' > lastIndex
             => \E f \in FetchSet, len \in 0..MaxLog :
                   /\ RFetchOk(f, len)
                   /\ \A c \in connected :
                         delivered'[c] =
                            delivered[c] \o Emitted(f.key, lastIndex, lastIndex')
      ]_vars

\* the cursor has advanced by two entries, each emitted to a connected client
C31_Witness ==
    /\ lastIndex = 2
    /\ \E c \in connected : Len(delivered[c]) = 2

\* C32: when a response arrives that is shorter than the cursor, no entry is
\* emitted, the cursor stays where it is and the call ends normally: a
\* startPolling that awaited it sets its interval.
C32_ShrunkenSequence ==
    [][\A f \in FetchSet, len \in 0..MaxLog :
         (len < lastIndex /\ RFetchOk(f, len))
            => /\ lastIndex' = lastIndex
               /\ delivered' = delivered
               /\ f.kind = "start" => globalInterval'
      ]_vars

\* a response shorter than the cursor has arrived, with a client connected
C32_Witness ==
    /\ shrunk
    /\ lastIndex > 0
    /\ connected # {}

----------------------------------------------------------------------------
(* Further properties of ApiService, checked under SpecApi                 *)

Min(a, b) == IF a <= b THEN a ELSE b

\* C33: a fetchMessages call for a valid key sleeps 2^k * 1000 ms after its
\* failed attempt number k when k < maxAttempts (2000 ms, then 4000 ms, for 3
\* attempts), and does not sleep after the last attempt.
C33_ExponentialBackoff ==
    [][\A key \in ApiKeys, fails \in ApiFails :
          (isValidKey(Str(key)) /\ ApiFetchMessages(key, fails))
             => LET d == apiCall'.delays IN
                /\ Len(d) = Min(fails, API_RETRY_ATTEMPTS - 1)
                /\ \A k \in 1..Len(d) : d[k] = (2 ^ k) * 1000
                /\ (API_RETRY_ATTEMPTS = 3 /\ fails >= 2) => d = <<2000, 4000>>
     ]_vars

\* every attempt of a call failed, after sleeps of 2000 ms and 4000 ms
C33_Witness ==
    /\ apiCall.made
    /\ isValidKey(Str(apiCall.key))
    /\ apiCall.fails >= API_RETRY_ATTEMPTS
    /\ apiCall.delays = <<2000, 4000>>

\* the positions of raw that hold a non-empty string of at most
\* MAX_MESSAGE_LENGTH characters (an entry is modelled by its length, -1 for
\* an entry that is no string)
ValidPositions(raw) ==
    {i \in 1..Len(raw) : raw[i] >= 1 /\ raw[i] <= MAX_MESSAGE_LENGTH}

\* the j-th smallest element of the set of numbers P
Kth(P, j) == CHOOSE i \in P : Cardinality({m \in P : m <= i}) = j

\* C34: a successful fetch of an array returns the first
\* MAX_MESSAGES_PER_BATCH elements of the subsequence of valid raw entries,
\* in their original order.
C34_FilterAndCap ==
    [][\A key \in ApiKeys, fails \in ApiFails :
          (/\ apiBody.shape = "array"
           /\ ApiFetchMessages(key, fails)
           /\ apiResult'.success)
             => LET raw == apiBody.msgs
                    P == ValidPositions(raw)
                    r == apiCall'.returned
                IN  /\ Len(r) = Min(Cardinality(P), MAX_MESSAGES_PER_BATCH)
                    /\ \A j \in 1..Len(r) : r[j] = raw[Kth(P, j)]
                    /\ apiResult'.messagesProcessed = Len(r)
     ]_vars

\* a fetch of more valid entries than the batch maximum returned exactly
\* the batch maximum
C34_Witness ==
    /\ apiCall.made
    /\ apiResult.success
    /\ Cardinality(ValidPositions(apiBody.msgs)) > MAX_MESSAGES_PER_BATCH
    /\ Len(apiCall.returned) = MAX_MESSAGES_PER_BATCH

----------------------------------------------------------------------------
(* Further properties of the rate limiter, checked under SpecRate          *)

\* rateLimit rejects a request of ip in this step
Rejects(ip) == HttpRequest(ip) /\ reply'.status = "429"

\* C35: when rateLimit rejects a request, the count and the resetTime of that
\* origin are after the call what they were before it.
C35_RejectionKeepsWindow ==
    [][\A ip \in Origins :
          Rejects(ip)
             => /\ ip \in DOMAIN requestCounts
                /\ ip \in DOMAIN requestCounts'
                /\ requestCounts'[ip] = requestCounts[ip]
     ]_vars

\* an origin has been rejected twice in one window, later in time the second
\* time
C35_Witness ==
    /\ reply.status = "429"
    /\ requestsMade[reply.ip] = maxRequests + 2
    /\ now > firstAt[reply.ip]

\* C36: every rejection reports a retryAfter of at least 1 second and at most
\* ceil(RATE_LIMIT_WINDOW / 1000) seconds.
C36_RetryAfterBounds ==
    [][\A ip \in Origins :
          Rejects(ip)
             => /\ reply'.retryAfter >= 1
                /\ reply'.retryAfter <= (RATE_LIMIT_WINDOW + 999) \div 1000
     ]_vars

\* C36 as amended: every rejection reports a retryAfter between 0 and
\* ceil(RATE_LIMIT_WINDOW / 1000) seconds; it is at least 1 whenever the
\* request arrives before resetTime, and 0 only at now = resetTime.
C36_RetryAfterRange ==
    [][\A ip \in Origins :
          Rejects(ip)
             => /\ reply'.retryAfter >= 0
                /\ reply'.retryAfter <= (RATE_LIMIT_WINDOW + 999) \div 1000
                /\ now < requestCounts[ip].resetTime => reply'.retryAfter >= 1
                /\ reply'.retryAfter = 0 => now = requestCounts[ip].resetTime
     ]_vars

\* a request arriving at the resetTime of its window was rejected with
\* retryAfter 0
C36_Witness ==
    /\ reply.status = "429"
    /\ reply.retryAfter = 0
    /\ requestCounts[reply.ip].resetTime = now

\* C37: after every rateLimit call made at time now, requestCounts holds no
\* entry whose resetTime is earlier than now.
C37_LazyPurge ==
    [][\A ip \in Origins :
          HttpRequest(ip)
             => \A o \in DOMAIN requestCounts' :
                   requestCounts'[o].resetTime >= now
     ]_vars

\* the expired window of an origin was purged by the request of another one
C37_Witness ==
    /\ reply.status # "none"
    /\ \E o \in DOMAIN firstAt :
          /\ o # reply.ip
          /\ o \notin DOMAIN requestCounts
          /\ now > firstAt[o] + RATE_LIMIT_WINDOW

\* C38: origins do not interfere in the rate limiter. The answer an origin
\* receives (admitted or rejected, and the retryAfter of a rejection) is
\* the answer of a middleware that received the requests of that origin
\* only, at the same times: the requests of the other origins, and the
\* purge of their expired windows, do not change it.
C38_OriginsDoNotInterfere ==
    [][\A ip \in Origins :
          HttpRequest(ip)
            => reply' = rateLimit(solo[ip], ip, now, maxRequests).reply]_vars

\* an origin is rejected in the call that purged the expired window of
\* another origin
C38_Witness ==
    /\ reply.status = "429"
    /\ \E o \in DOMAIN firstAt :
          /\ o # reply.ip
          /\ o \notin DOMAIN requestCounts
          /\ now > firstAt[o] + RATE_LIMIT_WINDOW
          /\ solo[o] # EmptyMap

----------------------------------------------------------------------------
(* Two connections on one PollingService                                   *)

\* startPolling requests of the two connections: a valid key, a key that
\* sanitizing leaves invalid
PairRequests ==
    {[isObject |-> TRUE, key |-> k, event |-> FALSE] : k \in {Str(KeyA), Str(<<>>)}}

\* the remote source answers with two messages, or fails every attempt
PairEnvs ==
    {[fails |-> 0, body |-> Body("array", <<7, 7>>)],
     [fails |-> API_RETRY_ATTEMPTS, body |-> Body("empty", <<>>)]}

PInitPair ==
    /\ status = [c \in {"c1", "c2"} |-> "new"]
    /\ clients = EmptyMap
    /\ pollingConfigs = EmptyMap
    /\ intervals = EmptyMap
    /\ timers = EmptyBag
    /\ tasks = EmptyBag
    /\ emitted = <<>>
    /\ stoppedOnError = {}

PairInit == PInitPair /\ RIdle /\ LIdle /\ AIdle

\* the executePolling calls in flight on the whole service
InFlight == BagCardinality(tasks)

PairNext ==
    \/ \E c \in Sockets : Connect(c)
    \/ \E c \in Sockets, data \in PairRequests :
          InFlight < MaxInFlight /\ StartPolling(c, data)
    \/ \E c \in Sockets : InFlight < MaxInFlight /\ Tick(c, KeyA)
    \/ \E t \in TaskSet, env \in PairEnvs : FetchDone(t, env)
    \/ \E t \in TaskSet, env \in PairEnvs : ProcessDone(t, env)
    \/ \E c \in Sockets : Disconnect(c)

SpecPair == PairInit /\ [][PairNext]_vars

\* what a map holds for c
Entry(m, c) == IF c \in DOMAIN m THEN <<m[c]>> ELSE <<>>

\* what the PollingService holds for connection c: ClientInfo,
\* PollingConfig, the handle in intervals and the timers that run for it
Held(c) ==
    [info |-> Entry(clients, c), config |-> Entry(pollingConfigs, c),
     handle |-> Entry(intervals, c), timers |-> OfClient(timers, c)]

\* a step of the service made for connection c: startPolling, stopPolling
\* at its disconnection, a tick of its timer, an executePolling call of it
\* resuming (where the threshold stop happens)
StepFor(c) ==
    \/ \E data \in PairRequests : StartPolling(c, data)
    \/ Disconnect(c)
    \/ Tick(c, KeyA)
    \/ \E t \in TaskSet, env \in PairEnvs :
          /\ t.client = c
          /\ FetchDone(t, env) \/ ProcessDone(t, env)

\* C39: per-client independence. A step of the PollingService made for a
\* connection A (startPolling, stopPolling, a tick, a threshold stop)
\* leaves the ClientInfo, the PollingConfig and the timer of every other
\* connection B as they were.
C39_PerClientIndependence ==
    [][\A a \in Sockets, b \in Sockets :
          (a # b /\ StepFor(a)) => Held(b)' = Held(b)]_vars

\* the poller of one connection was stopped at the error threshold while
\* another connection is polling, with its three entries and its timer
C39_Witness ==
    \E a \in stoppedOnError, b \in DOMAIN intervals :
       /\ a # b
       /\ a \notin DOMAIN pollingConfigs
       /\ b \in DOMAIN clients
       /\ b \in DOMAIN pollingConfigs
       /\ BagIn(Timer(b, intervals[b]), timers)

----------------------------------------------------------------------------
(* Consistency of the three maps of PollingService, checked under Spec     *)

\* PollingService.getClientStats
getClientStats(S) ==
    [total |-> Cardinality(DOMAIN S.clients),
     polling |-> Cardinality(DOMAIN S.intervals)]

\* stopPolling runs for c in this step: at its disconnection, or from
\* handlePollingError at the error threshold
StopPollingRuns(c) ==
    \/ Disconnect(c)
    \/ c \notin stoppedOnError /\ c \in stoppedOnError'

\* a connection with an entry in intervals has a ClientInfo and a
\* PollingConfig, and getClientStats reports polling <= total
MapsConsistent ==
    /\ \A c \in DOMAIN intervals :
          c \in DOMAIN clients /\ c \in DOMAIN pollingConfigs
    /\ getClientStats(Store).polling <= getClientStats(Store).total

\* C40: consistency of the polling maps. In every reachable state a
\* connection that has an entry in intervals also has a ClientInfo and a
\* PollingConfig, so that getClientStats reports polling <= total; and
\* after stopPolling for a connection none of the three maps holds an
\* entry for it.
C40_PollingMapsConsistent ==
    /\ []MapsConsistent
    /\ [][\A c \in Sockets :
            StopPollingRuns(c)
              => /\ c \notin DOMAIN clients'
                 /\ c \notin DOMAIN pollingConfigs'
                 /\ c \notin DOMAIN intervals']_vars

============================================================================
